---------------------------- MODULE Spec2Model ----------------------------
(***************************************************************************)
(* Model of src/frontend/src/index.ts: the multiplication-table cipher.    *)
(*                                                                         *)
(*   - 32-bit words are pairs <<hi, lo>> of 16-bit halves, so that the     *)
(*     arithmetic of Math.imul, ^, |, <<, >>> keeps its width;             *)
(*   - strings are sequences of UTF-16 code units;                         *)
(*   - the letter budgets (remainingPointsPerLetter, pointValue) are kept  *)
(*     multiplied by the total letter weight, which makes them integers:   *)
(*     pointValue is gridSize * gridSize / 102 in the source.              *)
(***************************************************************************)
EXTENDS Integers, Sequences, FiniteSets, TLC

VARIABLES
    \* ---- generateDecodingTable, run phase by phase (SpecGen)
    genPc,          \* "call" | "shuffled" | "covered" | "returned" | "threw"
    genGridSize,    \* argument gridSize
    genSeed,        \* argument seed
    gen,            \* the locals of generateDecodingTable
    firstPassTable, \* decodingTable as it was at the end of the first pass
    \* ---- encodeMessage / decodeMessage (SpecCodec)
    codecPc,        \* "init" | "ready" | "encoded" | "decoded" | "roundtrip"
    codecTable,     \* the DecodingTable handed to encode / decode
    codecInput,     \* the message argument
    encoded,        \* outcome of encodeMessage
    decoded,        \* outcome of decodeMessage
    \* ---- the application (Spec)
    localStorageOk, \* whether localStorage is truthy
    storage,        \* localStorage: key -> string
    failedOnce,     \* line 54
    vm,             \* the Vue instance the last launch() created: its data
    pending,        \* the watchers of vm queued for the next flush
    replaced,       \* the instances launch() replaced whose watchers are queued
    generateCalls,  \* gridSize arguments generateDecodingTable was called with
    launches,       \* number of launch() calls
    resets,         \* number of localStorage.clear() + launch() by the handler
    rethrown,       \* number of errors the handler rethrew
    resetAtError    \* ordinal of the error that triggered the reset (0: none)

genVars == <<genPc, genGridSize, genSeed, gen, firstPassTable>>
codecVars == <<codecPc, codecTable, codecInput, encoded, decoded>>
appVars == <<localStorageOk, storage, failedOnce, vm, pending, replaced, generateCalls,
             launches, resets, rethrown, resetAtError>>
vars == <<genVars, codecVars, appVars>>

-----------------------------------------------------------------------------
(* 32-bit words                                                            *)

Half == 65536

\* the 32-bit words. The operators on words are defined on Word only: the CASE
\* of each tests its operands first.
Word == (0..(Half - 1)) \X (0..(Half - 1))

\* 2^k for k in 0 .. 16
Pow2(k) == 2 ^ k

\* bit k of a
Bit(a, k) == (a \div Pow2(k)) % 2

\* a ^ b and a | b on 4-bit digits
XorNibbles ==
    [a \in 0..15, b \in 0..15 |->
        (((Bit(a, 0) + Bit(b, 0)) % 2) + 2 * ((Bit(a, 1) + Bit(b, 1)) % 2))
        + (4 * ((Bit(a, 2) + Bit(b, 2)) % 2) + 8 * ((Bit(a, 3) + Bit(b, 3)) % 2))]

OrNibbles ==
    [a \in 0..15, b \in 0..15 |->
        (((Bit(a, 0) + Bit(b, 0) + 1) \div 2) + 2 * ((Bit(a, 1) + Bit(b, 1) + 1) \div 2))
        + (4 * ((Bit(a, 2) + Bit(b, 2) + 1) \div 2)
           + 8 * ((Bit(a, 3) + Bit(b, 3) + 1) \div 2))]

\* the 4-bit digit k of a 16-bit half, k in 0 .. 3
Nibble(a, k) == (a \div Pow2(4 * k)) % 16

\* a ^ b and a | b on 16-bit halves
BitXor(a, b) ==
    (XorNibbles[Nibble(a, 0), Nibble(b, 0)] + 16 * XorNibbles[Nibble(a, 1), Nibble(b, 1)])
    + (256 * XorNibbles[Nibble(a, 2), Nibble(b, 2)]
       + 4096 * XorNibbles[Nibble(a, 3), Nibble(b, 3)])

BitOr(a, b) ==
    (OrNibbles[Nibble(a, 0), Nibble(b, 0)] + 16 * OrNibbles[Nibble(a, 1), Nibble(b, 1)])
    + (256 * OrNibbles[Nibble(a, 2), Nibble(b, 2)]
       + 4096 * OrNibbles[Nibble(a, 3), Nibble(b, 3)])

\* x ^ y
Xor32(x, y) ==
    CASE x \in Word /\ y \in Word -> <<BitXor(x[1], y[1]), BitXor(x[2], y[2])>>

\* x | y
Or32(x, y) ==
    CASE x \in Word /\ y \in Word -> <<BitOr(x[1], y[1]), BitOr(x[2], y[2])>>

\* x >>> k, 0 < k < 32
Shr32(x, k) ==
    CASE x \in Word /\ k >= 16 -> <<0, x[1] \div Pow2(k - 16)>>
      [] x \in Word /\ k < 16 ->
           <<x[1] \div Pow2(k), (x[1] % Pow2(k)) * Pow2(16 - k) + x[2] \div Pow2(k)>>

\* x << k, 0 < k < 16
Shl32(x, k) ==
    CASE x \in Word ->
        <<(x[1] % Pow2(16 - k)) * Pow2(k) + x[2] \div Pow2(16 - k),
          (x[2] % Pow2(16 - k)) * Pow2(k)>>

\* (x + y) mod 2^32
Add32(x, y) ==
    CASE x \in Word /\ y \in Word ->
        <<(x[1] + y[1] + (x[2] + y[2]) \div Half) % Half, (x[2] + y[2]) % Half>>

\* the full product of two 16-bit halves, as a word
Mul16(a, b) ==
    <<(((a \div 256) * b) \div 256
         + (((((a \div 256) * b) % 256) * 256) + (a % 256) * b) \div Half) % Half,
      (((((a \div 256) * b) % 256) * 256) + (a % 256) * b) % Half>>

\* the word whose low half is that of low, and whose high half is the high
\* half of low plus cross, modulo 2^16
AddHigh(low, cross) == <<(low[1] + cross) % Half, low[2]>>

\* Math.imul(x, y): the low 32 bits of the product
Imul(x, y) ==
    CASE x \in Word /\ y \in Word ->
        AddHigh(Mul16(x[2], y[2]), (Mul16(x[1], y[2])[2] + Mul16(x[2], y[1])[2]) % Half)

\* ToUint32 of an integer in -2^31 .. 2^31 - 1
ToWord(n) ==
    IF n >= 0 THEN <<n \div Half, n % Half>>
    ELSE <<Half - 1 - ((-n - 1) \div Half), Half - 1 - ((-n - 1) % Half)>>

-----------------------------------------------------------------------------
(* hash and initializeRandom                                               *)

\* 1779033703, 3432918353, 2246822507, 3266489909 and 0x6D2B79F5 as words
HashInit == <<27145, 58983>>
HashMul1 == <<52382, 11601>>
HashMul2 == <<34283, 51819>>
HashMul3 == <<49842, 44597>>
MulberryStep == <<27947, 31221>>

\* h ^ h >>> k
XorShift(h, k) == Xor32(h, Shr32(h, k))

\* h << 13 | h >>> 19
Rotate13(h) == Or32(Shl32(h, 13), Shr32(h, 19))

\* lines 279-281: the loop over the code units of str, from the i-th on
RECURSIVE hashLoop(_, _, _)
hashLoop(h, str, i) ==
    CASE h \in Word /\ i > Len(str) -> h
      [] h \in Word /\ i <= Len(str) ->
           hashLoop(Rotate13(Imul(Xor32(h, <<0, str[i]>>), HashMul1)), str, i + 1)

\* lines 277-287
hash(str) ==
    XorShift(Imul(XorShift(Imul(XorShift(hashLoop(Xor32(HashInit, <<0, Len(str)>>), str, 1),
                                         16),
                                HashMul2),
                           13),
                  HashMul3),
             16)

\* the generator's state after one call of the closure: seed += 0x6D2B79F5
NextSeed(seed) == Add32(seed, MulberryStep)

\* line 293: t = Math.imul(t ^ t >>> 15, t | 1)
Mulberry1(t) == Imul(XorShift(t, 15), Or32(t, <<0, 1>>))

\* line 294: t ^= t + Math.imul(t ^ t >>> 7, t | 61)
Mulberry2(t) == Xor32(t, Add32(t, Imul(XorShift(t, 7), Or32(t, <<0, 61>>))))

\* the numerator of the value one call returns, out of 4294967296
RandomBits(seed) == XorShift(Mulberry2(Mulberry1(NextSeed(seed))), 14)

\* Math.floor(u / 4294967296 * n) for 0 <= n < 65536
Scale(u, n) == (u[1] * n + (u[2] * n) \div Half) \div Half

\* Math.floor(random() * n)
RandomIndex(seed, n) == Scale(RandomBits(seed), n)

-----------------------------------------------------------------------------
(* Letters                                                                 *)

Space == 32
CodeA == 65
CodeZ == 90

\* Object.keys(LETTER_DISTRIBUTION): A .. Z, then the space
LetterKeys == [k \in 1..27 |-> IF k = 27 THEN Space ELSE CodeA + k - 1]

Letters == {LetterKeys[k] : k \in 1..27}

\* A: 8, B: 1, C: 3, ... Z: 1, ' ': 5, in the order of LetterKeys
LetterWeights ==
    <<8, 1, 3, 3, 9, 2, 1, 1, 7, 1, 1, 6, 3, 7, 5, 3, 2, 7, 8, 7, 6, 2, 1, 1, 1, 1, 5>>

LETTER_DISTRIBUTION == [l \in Letters |->
    LetterWeights[IF l = Space THEN 27 ELSE l - CodeA + 1]]

RECURSIVE SumSeq(_, _)
SumSeq(s, k) == IF k = 0 THEN 0 ELSE s[k] + SumSeq(s, k - 1)

\* Object.values(LETTER_DISTRIBUTION).reduce((p, v) => p + v, 0)
TotalWeight == SumSeq(LetterWeights, Len(LetterWeights))

-----------------------------------------------------------------------------
(* Table generation                                                        *)

\* generateReverseTable with the inner loop stopping one short of gridSize
generateReverseTableShort(gridSize) ==
    [product \in {i * j : i \in 1..gridSize, j \in 1..(gridSize - 1)} |->
        LET factors == SelectSeq([i \in 1..gridSize |-> i],
                                 LAMBDA i : product % i = 0 /\ product \div i < gridSize)
        IN [k \in 1..Len(factors) |-> [i |-> factors[k], j |-> product \div factors[k]]]]

\* lines 264-269. The loops visit the pairs by increasing i, then increasing j,
\* so the list of a product holds, by increasing i, one pair for each i in
\* 1 .. gridSize that divides it with a quotient j in 1 .. gridSize.
generateReverseTable(gridSize) ==
    [product \in {i * j : i \in 1..gridSize, j \in 1..gridSize} |->
        LET factors == SelectSeq([i \in 1..gridSize |-> i],
                                 LAMBDA i : product % i = 0 /\ product \div i <= gridSize)
        IN [k \in 1..Len(factors) |-> [i |-> factors[k], j |-> product \div factors[k]]]]

\* Object.keys of a table with integer keys: ascending
TableKeys(table) ==
    LET top == IF DOMAIN table = {} THEN 0
               ELSE CHOOSE m \in DOMAIN table : \A k \in DOMAIN table : k <= m
    IN SelectSeq([p \in 1..top |-> p], LAMBDA p : p \in DOMAIN table)

\* lines 202-208
Occurrences(reverseTable) ==
    LET keys == TableKeys(reverseTable)
    IN [k \in 1..Len(keys) |-> [result |-> keys[k], times |-> Len(reverseTable[keys[k]])]]

\* line 302: [a[i], a[j]] = [a[j], a[i]], i and j 0-based
Swap(a, i, j) == [a EXCEPT ![i + 1] = a[j + 1], ![j + 1] = a[i + 1]]

\* lines 301-302: the body of the loop; i is the source's 0-based index
ShuffleStep(st, i) ==
    [a |-> Swap(st.a, i, RandomIndex(st.random, i + 1)), random |-> NextSeed(st.random)]

\* line 300: the iterations i = hi, hi - 1, ..., lo, in this order (the range is
\* run as two halves, one after the other)
RECURSIVE shuffleLoop(_, _, _)
shuffleLoop(st, hi, lo) ==
    IF hi >= Len(st.a) \/ hi < lo THEN st
    ELSE IF hi = lo THEN ShuffleStep(st, hi)
    ELSE LET upper == shuffleLoop(st, hi, ((hi + lo) \div 2) + 1)
         IN shuffleLoop(upper, (hi + lo) \div 2, lo)

\* shuffle(a, random): the shuffled array and the generator's state afterwards
shuffle(a, seed) == shuffleLoop([a |-> a, random |-> seed], Len(a) - 1, 1)

\* splice that removes nothing
SpliceNothing(a, index) == a

\* a.splice(index, 1), index 0-based
Splice(a, index) == [k \in 1..(Len(a) - 1) |-> IF k <= index THEN a[k] ELSE a[k + 1]]

\* delete obj[key]
Delete(obj, key) == [k \in DOMAIN obj \ {key} |-> obj[k]]

\* Object.keys(remainingPointsPerLetter): insertion order, minus the deleted
PointsKeys(points) == SelectSeq(LetterKeys, LAMBDA l : l \in DOMAIN points)

\* lines 223-224: findIndex, 0-based; -1 when no occurrence matches
findIndex(occs, pointValue, budget) ==
    LET matching == {k \in 1..Len(occs) :
                        occs[k].times = 1 \/ occs[k].times * pointValue < budget}
    IN IF matching = {} THEN -1
       ELSE (CHOOSE k \in matching : \A m \in matching : k <= m) - 1

\* lines 198-221: the locals before the first pass, shuffled being the outcome
\* of line 221
GenLocals(gridSize, shuffled) ==
    [pointValue |-> gridSize * gridSize,
     remainingPointsPerLetter |->
         [l \in Letters |-> gridSize * gridSize * LETTER_DISTRIBUTION[l]],
     decodingTable |-> <<>>,
     remainingOccurrences |-> Occurrences(generateReverseTable(gridSize)),
     shuffledLetters |-> shuffled.a,
     random |-> shuffled.random,
     threw |-> FALSE]

GenSetup(gridSize, seed) == GenLocals(gridSize, shuffle(LetterKeys, ToWord(seed)))

\* lines 223-226: the index of the occurrence to take and the generator's state,
\* found being the outcome of findIndex
FirstPassIndex(st, found) ==
    IF found = -1
    THEN [index |-> RandomIndex(st.random, Len(st.remainingOccurrences)),
          random |-> NextSeed(st.random)]
    ELSE [index |-> found, random |-> st.random]

\* lines 228-234: the letter takes the occurrence
FirstPassTake(st, letter, at, occurrence) ==
    [st EXCEPT
       !.decodingTable = (occurrence.result :> letter) @@ @,
       !.remainingPointsPerLetter =
           IF @[letter] - TotalWeight * occurrence.times < st.pointValue
           THEN Delete(@, letter)
           ELSE [@ EXCEPT ![letter] = @ - TotalWeight * occurrence.times],
       !.remainingOccurrences = Splice(@, at.index),
       !.random = at.random]

\* line 228: remainingOccurrences[index] is undefined when the index is not one
\* of the array: reading its .result is a TypeError
FirstPassAt(st, letter, at) ==
    IF at.index >= Len(st.remainingOccurrences)
    THEN [st EXCEPT !.threw = TRUE, !.random = at.random]
    ELSE FirstPassTake(st, letter, at, st.remainingOccurrences[at.index + 1])

\* lines 223-234: one iteration of the first pass
FirstPassStep(st, letter) ==
    FirstPassAt(st, letter,
                FirstPassIndex(st, findIndex(st.remainingOccurrences, st.pointValue,
                                             st.remainingPointsPerLetter[letter])))

\* lines 222-235: the letters lo .. hi of shuffledLetters, in order (the range
\* is run as two halves, one after the other); nothing runs after the TypeError
RECURSIVE firstPassLoop(_, _, _)
firstPassLoop(st, lo, hi) ==
    IF st.threw \/ lo > Len(st.shuffledLetters) \/ lo > hi THEN st
    ELSE IF lo = hi THEN FirstPassStep(st, st.shuffledLetters[lo])
    ELSE LET lower == firstPassLoop(st, lo, (lo + hi) \div 2)
         IN firstPassLoop(lower, ((lo + hi) \div 2) + 1, hi)

FirstPass(st) == firstPassLoop(st, 1, Len(st.shuffledLetters))

\* lines 243-247: the draws of the while loop; attempts counts the draws made
\* before this one, chosenLetter is the letter this one drew
RECURSIVE chooseLetter(_, _, _, _, _)
RECURSIVE chooseNext(_, _, _, _, _, _)
chooseLetter(letters, points, times, seed, attempts) ==
    chooseNext(letters, points, times, seed, attempts,
               letters[RandomIndex(seed, Len(letters)) + 1])

chooseNext(letters, points, times, seed, attempts, chosenLetter) ==
    IF points[chosenLetter] - TotalWeight * times >= 0 \/ attempts + 1 >= 3
    THEN [chosenLetter |-> chosenLetter, random |-> NextSeed(seed)]
    ELSE chooseLetter(letters, points, times, NextSeed(seed), attempts + 1)

\* lines 249-253: the chosen letter takes the occurrence
SecondPassTake(st, occurrence, chosen) ==
    [st EXCEPT
       !.decodingTable = (occurrence.result :> chosen.chosenLetter) @@ @,
       !.remainingPointsPerLetter =
           IF @[chosen.chosenLetter] - TotalWeight * occurrence.times < -st.pointValue
           THEN Delete(@, chosen.chosenLetter)
           ELSE [@ EXCEPT ![chosen.chosenLetter] = @ - TotalWeight * occurrence.times],
       !.random = chosen.random]

\* lines 239-256: one iteration of the second pass, letters being the keys of
\* remainingPointsPerLetter
SecondPassWith(st, occurrence, letters) ==
    IF Len(letters) > 0
    THEN SecondPassTake(st, occurrence,
                        chooseLetter(letters, st.remainingPointsPerLetter,
                                     occurrence.times, st.random, 0))
    ELSE [st EXCEPT !.decodingTable = (occurrence.result :> Space) @@ @]

SecondPassStep(st, occurrence) ==
    SecondPassWith(st, occurrence, PointsKeys(st.remainingPointsPerLetter))

\* lines 238-257: the occurrences lo .. hi of remainingOccurrences, in order
\* (the range is run as two halves, one after the other)
RECURSIVE secondPassLoop(_, _, _)
secondPassLoop(st, lo, hi) ==
    IF lo > Len(st.remainingOccurrences) \/ lo > hi THEN st
    ELSE IF lo = hi THEN SecondPassStep(st, st.remainingOccurrences[lo])
    ELSE LET lower == secondPassLoop(st, lo, (lo + hi) \div 2)
         IN secondPassLoop(lower, ((lo + hi) \div 2) + 1, hi)

SecondPass(st) == secondPassLoop(st, 1, Len(st.remainingOccurrences))

\* lines 237-259, covered being the locals after the first pass: the table
\* returned, or the TypeError of line 228
GenReturn(covered) ==
    IF covered.threw THEN [threw |-> TRUE, table |-> <<>>]
    ELSE [threw |-> FALSE, table |-> SecondPass(covered).decodingTable]

\* lines 197-260
generateDecodingTable(gridSize, seed) == GenReturn(FirstPass(GenSetup(gridSize, seed)))

-----------------------------------------------------------------------------
(* Strings: sequences of code units                                        *)

CodeZero == 48
CodeNine == 57
CodeMinus == 45
CodePlus == 43
CodeLowerA == 97
CodeLowerZ == 122

\* the white space String.prototype.trim and parseInt strip, among the code
\* units below 128
WhiteSpace == {9, 10, 11, 12, 13, Space}

IsDigit(c) == c >= CodeZero /\ c <= CodeNine

\* the first and the last index of str holding no white space; none: Len + 1, 0
FirstBlack(str) ==
    IF \A k \in 1..Len(str) : str[k] \in WhiteSpace THEN Len(str) + 1
    ELSE CHOOSE k \in 1..Len(str) :
            str[k] \notin WhiteSpace /\ \A m \in 1..(k - 1) : str[m] \in WhiteSpace

LastBlack(str) ==
    IF \A k \in 1..Len(str) : str[k] \in WhiteSpace THEN 0
    ELSE CHOOSE k \in 1..Len(str) :
            str[k] \notin WhiteSpace /\ \A m \in (k + 1)..Len(str) : str[m] \in WhiteSpace

\* String.prototype.trim
trim(str) == SubSeq(str, FirstBlack(str), LastBlack(str))

\* String.prototype.toUpperCase / toLowerCase, on code units below 128
toUpperCase(str) ==
    [k \in 1..Len(str) |->
        IF str[k] >= CodeLowerA /\ str[k] <= CodeLowerZ THEN str[k] - 32 ELSE str[k]]

toLowerCase(str) ==
    [k \in 1..Len(str) |-> IF str[k] >= CodeA /\ str[k] <= CodeZ THEN str[k] + 32 ELSE str[k]]

\* str.replace(/[^A-Z ]/g, ' ')
ReplaceNonLetters(str) ==
    [k \in 1..Len(str) |->
        IF (str[k] >= CodeA /\ str[k] <= CodeZ) \/ str[k] = Space THEN str[k] ELSE Space]

\* line 165: message.trim().toUpperCase().replace(/[^A-Z ]/g, ' ')
SanitizeEncode(message) == ReplaceNonLetters(toUpperCase(trim(message)))

\* SanitizeDecode with the spaces removed as well: replace(/[^0-9]/g, '')
SanitizeDecodeDigits(message) ==
    SelectSeq(toLowerCase(trim(message)), LAMBDA c : IsDigit(c))

\* line 179: message.trim().toLowerCase().replace(/[^0-9 ]/g, '')
SanitizeDecode(message) ==
    SelectSeq(toLowerCase(trim(message)), LAMBDA c : IsDigit(c) \/ c = Space)

\* the decimal representation of an integer (Number.prototype.toString, and the
\* property key of an integer index)
RECURSIVE Digits(_)
Digits(n) ==
    IF n < 10 THEN <<CodeZero + n>> ELSE Append(Digits(n \div 10), CodeZero + (n % 10))

NumberToString(n) == IF n < 0 THEN <<CodeMinus>> \o Digits(-n) ELSE Digits(n)

\* a JavaScript number that is an integer, or NaN
NaN == [nan |-> TRUE, value |-> 0]
Num(n) == [nan |-> FALSE, value |-> n]

RECURSIVE digitsValue(_, _, _)
digitsValue(str, k, acc) ==
    IF k > Len(str) \/ ~IsDigit(str[k]) THEN acc
    ELSE digitsValue(str, k + 1, 10 * acc + (str[k] - CodeZero))

\* parseInt from the index start on, where the white space ends: a sign, then
\* the longest run of digits; NaN when there is no digit
parseFrom(str, start) ==
    IF start <= Len(str) /\ str[start] = CodeMinus
    THEN IF start + 1 > Len(str) \/ ~IsDigit(str[start + 1]) THEN NaN
         ELSE Num(-digitsValue(str, start + 1, 0))
    ELSE IF start <= Len(str) /\ str[start] = CodePlus
    THEN IF start + 1 > Len(str) \/ ~IsDigit(str[start + 1]) THEN NaN
         ELSE Num(digitsValue(str, start + 1, 0))
    ELSE IF start > Len(str) \/ ~IsDigit(str[start]) THEN NaN
         ELSE Num(digitsValue(str, start, 0))

\* parseInt(str, 10)
parseInt(str) == parseFrom(str, FirstBlack(str))

\* str.split(/ +/)
RECURSIVE splitLoop(_, _, _, _)
splitLoop(str, k, current, parts) ==
    IF k > Len(str) THEN Append(parts, current)
    ELSE IF str[k] # Space THEN splitLoop(str, k + 1, Append(current, str[k]), parts)
    ELSE IF k > 1 /\ str[k - 1] = Space THEN splitLoop(str, k + 1, current, parts)
    ELSE splitLoop(str, k + 1, <<>>, Append(parts, current))

splitSpaces(str) == splitLoop(str, 1, <<>>, <<>>)

\* a value that is a string or undefined
Undefined == [defined |-> FALSE, str |-> <<>>]
Str(s) == [defined |-> TRUE, str |-> s]

\* Array.prototype.join(separator): undefined elements join as the empty string
RECURSIVE join(_, _, _)
join(elements, separator, k) ==
    IF k > Len(elements) THEN <<>>
    ELSE (IF k > 1 THEN separator ELSE <<>>)
         \o (IF elements[k].defined THEN elements[k].str ELSE <<>>)
         \o join(elements, separator, k + 1)

-----------------------------------------------------------------------------
(* Encoding and decoding                                                   *)

\* the seed taken from the sanitized message
EncodeSeedSanitized(message) == hash(SanitizeEncode(message))

\* line 164: the seed of the per-message generator
EncodeSeed(message) == hash(message)

\* ResultAt returning the result as the multiplication 1 x result
ResultAtAsFactors(matchingResults, index) ==
    IF index >= Len(matchingResults)
    THEN [threw |-> TRUE, token |-> Undefined, product |-> 0]
    ELSE [threw |-> FALSE,
          token |-> Str(<<49, 120>> \o NumberToString(matchingResults[index + 1])),
          product |-> matchingResults[index + 1]]

\* line 175: matchingResults[index][0]; reading [0] of undefined is a TypeError
ResultAt(matchingResults, index) ==
    IF index >= Len(matchingResults)
    THEN [threw |-> TRUE, token |-> Undefined, product |-> 0]
    ELSE [threw |-> FALSE,
          token |-> Str(NumberToString(matchingResults[index + 1])),
          product |-> matchingResults[index + 1]]

\* line 174
ChooseResult(matchingResults, seed) ==
    ResultAt(matchingResults, RandomIndex(seed, Len(matchingResults)))

\* the elements of a set of integers, ascending
Ascending(S) ==
    [k \in 1..Cardinality(S) |-> CHOOSE p \in S : Cardinality({q \in S : q < p}) = k - 1]

\* line 173: Object.entries lists the integer keys ascending; the keys of the
\* entries the filter keeps
MatchingResults(decodingTable, letter) ==
    Ascending({p \in DOMAIN decodingTable : decodingTable[p] = letter})

\* lines 172-176
encodeLetter(letter, decodingTable, seed) ==
    ChooseResult(MatchingResults(decodingTable, letter), seed)

\* line 168: the map over the letters that done does not hold yet, each call
\* drawing from the same generator; e is the outcome of encodeLetter for the
\* first of them
RECURSIVE encodeLoop(_, _, _, _)
RECURSIVE encodeNext(_, _, _, _, _)
encodeLoop(letters, decodingTable, seed, done) ==
    CASE seed \in Word /\ Len(done.tokens) >= Len(letters) ->
           [threw |-> FALSE, tokens |-> done.tokens, products |-> done.products,
            random |-> seed]
      [] seed \in Word /\ Len(done.tokens) < Len(letters) ->
           encodeNext(letters, decodingTable, seed, done,
                      encodeLetter(letters[Len(done.tokens) + 1], decodingTable, seed))

encodeNext(letters, decodingTable, seed, done, e) ==
    IF e.threw
    THEN [threw |-> TRUE, tokens |-> done.tokens, products |-> done.products,
          random |-> NextSeed(seed)]
    ELSE encodeLoop(letters, decodingTable, NextSeed(seed),
                    [tokens |-> Append(done.tokens, e.token),
                     products |-> Append(done.products, e.product)])

\* lines 166-169: the string returned (out), or the TypeError of line 175; seed
\* is the seed given to initializeRandom, products the results chosen
EncodeOutcome(run, seed) ==
    [threw |-> run.threw,
     out |-> IF run.threw THEN <<>> ELSE join(run.tokens, <<Space>>, 1),
     tokens |-> run.tokens,
     products |-> run.products,
     seed |-> seed,
     random |-> run.random]

\* lines 164-169, seed being the outcome of hash
EncodeWith(message, decodingTable, seed) ==
    EncodeOutcome(encodeLoop(SanitizeEncode(message), decodingTable, seed,
                             [tokens |-> <<>>, products |-> <<>>]),
                  seed)

\* lines 163-170
encodeMessage(message, decodingTable) ==
    EncodeWith(message, decodingTable, EncodeSeed(message))

\* decodeResult returning a question mark for a result the table does not hold
decodeResultOrMark(result, decodingTable) ==
    IF result \in DOMAIN decodingTable THEN Str(<<decodingTable[result]>>) ELSE Str(<<63>>)

\* lines 191-193
decodeResult(result, decodingTable) ==
    IF result \in DOMAIN decodingTable THEN Str(<<decodingTable[result]>>) ELSE Undefined

\* lines 182-186: .map(result => parseInt(result)).filter(Boolean)
ParseResults(strings) ==
    SelectSeq([k \in 1..Len(strings) |-> parseInt(strings[k])],
              LAMBDA r : ~r.nan /\ r.value # 0)

\* lines 179-186, results being the parsed numbers that survive the filter
DecodeAll(results, decodingTable) ==
    join([k \in 1..Len(results) |-> decodeResult(results[k].value, decodingTable)], <<>>, 1)

\* lines 178-189
decodeMessage(message, decodingTable) ==
    DecodeAll(ParseResults(splitSpaces(SanitizeDecode(message))), decodingTable)

-----------------------------------------------------------------------------
(* Bounds and inputs                                                       *)

\* lines 72, 81, 109 and 73, 113: the defaults; line 138: the valid grid sizes
DefaultGridSize == 12
DefaultSeed == 1
MinGridSize == 8
MaxGridSize == 20

\* seeds -1 .. MaxSeed are given to generateDecodingTable
MaxSeed == 2
\* messages of at most MaxLen code units are given to encode and decode
MaxLen == 3
\* at most MaxErrors errors reach Vue.config.errorHandler
MaxErrors == 2

Seeds == (-1)..MaxSeed

ValidGridSizes == MinGridSize..MaxGridSize

\* all strings over chars of length at most n
StringsOver(chars, n) == UNION {[1..k -> chars] : k \in 0..n}

\* E, z, the space and !
EncodeChars == {69, 122, Space, 33}
\* 0, 1, the space and x
DecodeChars == {48, 49, Space, 120}

EncodeMessages == StringsOver(EncodeChars, MaxLen)
DecodeMessages == StringsOver(DecodeChars, MaxLen)
\* what the gridSize field and the stored gridSize can hold:
\* "", "x", "7", "8", "20", "21" and "12x"
GridSizeTexts == {<<>>, <<120>>, <<55>>, <<56>>, <<50, 48>>, <<50, 49>>, <<49, 50, 120>>}
\* what the seed field and the stored seed can hold: "", "-1" and "2x"
SeedTexts == {<<>>, <<45, 49>>, <<50, 120>>}

\* the tables of the valid grid sizes, computed once
ValidTables ==
    [gridSize \in ValidGridSizes, seed \in Seeds |-> generateDecodingTable(gridSize, seed)]

-----------------------------------------------------------------------------
(* SpecGen: generateDecodingTable, one phase at a time                     *)

NoGen == [threw |-> FALSE]

GenIdle ==
    /\ genPc = "idle" /\ genGridSize = 0 /\ genSeed = 0
    /\ gen = NoGen /\ firstPassTable = <<>>

CodecIdle ==
    /\ codecPc = "idle" /\ codecTable = <<>> /\ codecInput = <<>>
    /\ encoded = [threw |-> FALSE] /\ decoded = <<>>

AppIdle ==
    /\ localStorageOk = FALSE /\ storage = <<>> /\ failedOnce = FALSE
    /\ vm = <<>> /\ pending = {} /\ replaced = <<>> /\ generateCalls = {}
    /\ launches = 0 /\ resets = 0 /\ rethrown = 0 /\ resetAtError = 0

GenInit ==
    /\ genPc = "call"
    /\ genGridSize \in 0..MaxGridSize
    /\ genSeed \in Seeds
    /\ gen = NoGen
    /\ firstPassTable = <<>>
    /\ CodecIdle /\ AppIdle

\* lines 198-221
GenStart ==
    /\ genPc = "call"
    /\ gen' = GenSetup(genGridSize, genSeed)
    /\ genPc' = "shuffled"
    /\ UNCHANGED <<genGridSize, genSeed, firstPassTable, codecVars, appVars>>

\* lines 222-235
GenFirstPass ==
    /\ genPc = "shuffled"
    /\ gen' = FirstPass(gen)
    /\ genPc' = IF gen'.threw THEN "threw" ELSE "covered"
    /\ firstPassTable' = gen'.decodingTable
    /\ UNCHANGED <<genGridSize, genSeed, codecVars, appVars>>

\* lines 237-259
GenSecondPass ==
    /\ genPc = "covered"
    /\ gen' = SecondPass(gen)
    /\ genPc' = "returned"
    /\ UNCHANGED <<genGridSize, genSeed, firstPassTable, codecVars, appVars>>

GenNext == GenStart \/ GenFirstPass \/ GenSecondPass

SpecGen == GenInit /\ [][GenNext]_vars

-----------------------------------------------------------------------------
(* SpecCodec: encodeMessage and decodeMessage on a table                   *)

\* the table is the one generated for a valid grid size, or the empty table
\* the instance holds before refreshDecodingTable has run (line 76);
\* genGridSize and genSeed record which
CodecInit ==
    /\ codecPc = "ready"
    /\ \/ /\ genGridSize \in ValidGridSizes
          /\ genSeed \in Seeds
          /\ codecTable = ValidTables[genGridSize, genSeed].table
       \/ /\ genGridSize = 0 /\ genSeed = 0
          /\ codecTable = <<>>
    /\ genPc = "idle" /\ gen = NoGen /\ firstPassTable = <<>>
    /\ codecInput = <<>>
    /\ encoded = [threw |-> FALSE]
    /\ decoded = <<>>
    /\ AppIdle

\* encode(message), line 90
Encode(message) ==
    /\ codecPc = "ready"
    /\ codecInput' = message
    /\ encoded' = encodeMessage(message, codecTable)
    /\ codecPc' = "encoded"
    /\ UNCHANGED <<codecTable, decoded, genVars, appVars>>

\* decode(message), line 93
Decode(message) ==
    /\ codecPc = "ready"
    /\ codecInput' = message
    /\ decoded' = decodeMessage(message, codecTable)
    /\ codecPc' = "decoded"
    /\ UNCHANGED <<codecTable, encoded, genVars, appVars>>

\* decode applied to what encode returned
DecodeEncoded ==
    /\ codecPc = "encoded"
    /\ ~encoded.threw
    /\ decoded' = decodeMessage(encoded.out, codecTable)
    /\ codecPc' = "roundtrip"
    /\ UNCHANGED <<codecTable, codecInput, encoded, genVars, appVars>>

CodecNext ==
    \/ \E message \in EncodeMessages : Encode(message)
    \/ \E message \in DecodeMessages : Decode(message)
    \/ DecodeEncoded

SpecCodec == CodecInit /\ [][CodecNext]_vars

-----------------------------------------------------------------------------
(* Spec: the application                                                   *)

\* ToNumber of a string made of white space, signs and digits: the coercion
\* isValidGridSize applies to a string argument
NumericLiteral(str) ==
    /\ str # <<>>
    /\ \A k \in 2..Len(str) : IsDigit(str[k])
    /\ IsDigit(str[1]) \/ (str[1] \in {CodeMinus, CodePlus} /\ Len(str) > 1)

ToNumber(str) ==
    IF trim(str) = <<>> THEN Num(0)
    ELSE IF NumericLiteral(trim(str)) THEN parseInt(trim(str))
    ELSE NaN

\* isValidGridSize without the lower limit
isValidGridSizeNoMin(n) == ~n.nan /\ n.value <= MaxGridSize

\* lines 137-139, n being the number the argument is, or coerces to
isValidGridSize(n) == ~n.nan /\ n.value >= MinGridSize /\ n.value <= MaxGridSize

\* lines 143-147; setItem stores the string of the value
save(store, ok, key, value) == IF ok THEN [store EXCEPT ![key] = Str(value)] ELSE store

\* lines 154-159: getItem(key) || ''
load(store, ok, key) == IF ok /\ store[key].defined THEN store[key].str ELSE <<>>

\* line 151, value being the outcome of parseInt
NumberOr(value, defaultValue) == IF value.nan THEN defaultValue ELSE value.value

\* lines 149-152
loadNumber(store, ok, key, defaultValue) ==
    NumberOr(parseInt(load(store, ok, key)), defaultValue)

\* localStorage.clear()
NoItems == [gridSize |-> Undefined, seed |-> Undefined]

\* lines 107-110
gridSizeNumber(v) ==
    IF ~isValidGridSize(parseInt(v.gridSize)) THEN DefaultGridSize
    ELSE parseInt(v.gridSize).value

\* lines 111-114
seedNumber(v) == NumberOr(parseInt(v.seed), DefaultSeed)

\* the tables of the settings the fields can hold, computed once
SettingsTables ==
    [gridSize \in {gridSizeNumber([gridSize |-> text]) : text \in GridSizeTexts},
     seed \in {seedNumber([seed |-> text]) : text \in SeedTexts}
        |-> generateDecodingTable(gridSize, seed)]

\* the outcome of generateDecodingTable(gridSize, seed)
Generated(gridSize, seed) ==
    IF <<gridSize, seed>> \in DOMAIN SettingsTables THEN SettingsTables[gridSize, seed]
    ELSE generateDecodingTable(gridSize, seed)

\* line 88, made being the outcome of the call: a TypeError leaves the table
\* as it was
Assign(v, made) == IF made.threw THEN v ELSE [v EXCEPT !.decodingTable = made.table]

\* lines 87-89
refreshDecodingTable(v) == Assign(v, Generated(gridSizeNumber(v), seedNumber(v)))

\* lines 71-77: data, and the values the watchers of gridSize and seed hold.
\* encodeInput and decodeInput, on which no setting depends, are left out.
Data(store, ok) ==
    [gridSize |-> NumberToString(loadNumber(store, ok, "gridSize", DefaultGridSize)),
     seed |-> NumberToString(loadNumber(store, ok, "seed", DefaultSeed)),
     decodingTable |-> <<>>,
     watched |-> [gridSize |-> NumberToString(loadNumber(store, ok, "gridSize",
                                                          DefaultGridSize)),
                  seed |-> NumberToString(loadNumber(store, ok, "seed", DefaultSeed))]]

\* lines 79-85: created(). this.gridSize = 12 stores the number 12, which every
\* use of gridSize turns into the string "12"
created(v) ==
    refreshDecodingTable(IF ~isValidGridSize(ToNumber(v.gridSize))
                         THEN [v EXCEPT !.gridSize = NumberToString(DefaultGridSize)]
                         ELSE v)

\* lines 68-133: the instance launch() creates
Launched(store, ok) == created(Data(store, ok))

\* the watchers the assignment of line 81 queues
QueuedByCreated(v) == IF v.gridSize # v.watched.gridSize THEN {"gridSize"} ELSE {}

\* the test of line 56 without failedOnce
ShouldResetAlways(ok, failed) == ok

\* line 56
ShouldReset(ok, failed) == ok /\ ~failed

\* the scheduler runs the queued watchers by increasing id: those of an older
\* instance first, gridSize (line 123) before seed (line 127)
WatcherOrder(instances) ==
    [k \in 1..(2 * instances) |->
        [instance |-> (k + 1) \div 2, key |-> IF k % 2 = 1 THEN "gridSize" ELSE "seed"]]

\* lines 123-130: the watcher w runs; its callback is called when the value is
\* not the one it holds
RunWatcher(st, w) ==
    IF \/ w.key \notin st.instances[w.instance].queue
       \/ st.instances[w.instance].data[w.key] = st.instances[w.instance].data.watched[w.key]
    THEN st
    ELSE [instances |->
              [st.instances EXCEPT ![w.instance].data =
                  refreshDecodingTable([@ EXCEPT !.watched[w.key] =
                                           st.instances[w.instance].data[w.key]])],
          storage |-> save(st.storage, st.ok, w.key, st.instances[w.instance].data[w.key]),
          calls |-> st.calls \cup {gridSizeNumber(st.instances[w.instance].data)},
          ok |-> st.ok]

RECURSIVE RunWatchers(_, _, _)
RunWatchers(st, order, k) ==
    IF k > Len(order) THEN st
    ELSE RunWatchers(RunWatcher(st, order[k]), order, k + 1)

AppInit ==
    /\ localStorageOk \in BOOLEAN
    /\ \E gridSize \in GridSizeTexts, seed \in SeedTexts,
          has \in [{"gridSize", "seed"} -> BOOLEAN] :
          storage = [gridSize |-> IF localStorageOk /\ has["gridSize"] THEN Str(gridSize)
                                  ELSE Undefined,
                     seed |-> IF localStorageOk /\ has["seed"] THEN Str(seed) ELSE Undefined]
    /\ failedOnce = FALSE
    /\ vm = Launched(storage, localStorageOk)
    /\ pending = QueuedByCreated(vm)
    /\ replaced = <<>>
    /\ generateCalls = {gridSizeNumber(vm)}
    /\ launches = 1 /\ resets = 0 /\ rethrown = 0 /\ resetAtError = 0
    /\ GenIdle /\ CodecIdle

\* the input bound to gridSize receives text: the event handler runs once the
\* queue of an earlier event has been flushed
EditGridSize(text) ==
    /\ pending = {} /\ replaced = <<>>
    /\ text # vm.gridSize
    /\ vm' = [vm EXCEPT !.gridSize = text]
    /\ pending' = {"gridSize"}
    /\ UNCHANGED <<localStorageOk, storage, failedOnce, replaced, generateCalls, launches,
                   resets, rethrown, resetAtError, genVars, codecVars>>

\* the input bound to seed receives text
EditSeed(text) ==
    /\ pending = {} /\ replaced = <<>>
    /\ text # vm.seed
    /\ vm' = [vm EXCEPT !.seed = text]
    /\ pending' = {"seed"}
    /\ UNCHANGED <<localStorageOk, storage, failedOnce, replaced, generateCalls, launches,
                   resets, rethrown, resetAtError, genVars, codecVars>>

\* the state the run of the queued watchers leaves; the last instance is vm
Flushed(done) ==
    /\ vm' = done.instances[Len(done.instances)].data
    /\ storage' = done.storage
    /\ generateCalls' = done.calls

\* lines 123-130: the scheduler flushes its queue, which holds the queued
\* watchers of the replaced instances and of vm
Flush ==
    /\ pending # {} \/ replaced # <<>>
    /\ Flushed(RunWatchers([instances |-> Append(replaced, [data |-> vm, queue |-> pending]),
                            storage |-> storage,
                            calls |-> generateCalls,
                            ok |-> localStorageOk],
                           WatcherOrder(Len(replaced) + 1), 1))
    /\ pending' = {}
    /\ replaced' = <<>>
    /\ UNCHANGED <<localStorageOk, failedOnce, launches, resets, rethrown, resetAtError,
                   genVars, codecVars>>

\* lines 55-64: an error reaches Vue.config.errorHandler. launch() replaces the
\* instance; the watchers of the replaced one stay queued
Error ==
    /\ resets + rethrown < MaxErrors
    /\ IF ShouldReset(localStorageOk, failedOnce)
       THEN /\ failedOnce' = TRUE
            /\ storage' = NoItems
            /\ vm' = Launched(NoItems, localStorageOk)
            /\ pending' = QueuedByCreated(vm')
            /\ replaced' = IF pending = {} THEN replaced
                           ELSE Append(replaced, [data |-> vm, queue |-> pending])
            /\ generateCalls' = generateCalls \cup {gridSizeNumber(vm')}
            /\ launches' = launches + 1
            /\ resets' = resets + 1
            /\ resetAtError' = resets + rethrown + 1
            /\ UNCHANGED rethrown
       ELSE /\ rethrown' = rethrown + 1
            /\ UNCHANGED <<storage, failedOnce, vm, pending, replaced, generateCalls,
                           launches, resets, resetAtError>>
    /\ UNCHANGED <<localStorageOk, genVars, codecVars>>

Next ==
    \/ \E text \in GridSizeTexts : EditGridSize(text)
    \/ \E text \in SeedTexts : EditSeed(text)
    \/ Flush
    \/ Error

Init == AppInit

Spec == Init /\ [][Next]_vars

-----------------------------------------------------------------------------
(* Properties of generateDecodingTable, under SpecGen                      *)

\* the attainable products of a grid
Products(gridSize) == {i * j : i \in 1..gridSize, j \in 1..gridSize}

\* C2 (coverage): for every gridSize in 8 .. 20 and every seed the call does not
\* fail; when the first pass ends, the 27 letters hold 27 distinct products,
\* one each; the table returned keeps each of these products with its letter,
\* so that every letter is the value of at least one product.
Coverage ==
    genGridSize \in ValidGridSizes =>
        /\ genPc # "threw"
        /\ genPc \in {"covered", "returned"} =>
              /\ Cardinality(DOMAIN firstPassTable) = 27
              /\ \A l \in Letters :
                    Cardinality({p \in DOMAIN firstPassTable : firstPassTable[p] = l}) = 1
              /\ DOMAIN firstPassTable \subseteq Products(genGridSize)
        /\ genPc = "returned" =>
              /\ \A p \in DOMAIN firstPassTable :
                    /\ p \in DOMAIN gen.decodingTable
                    /\ gen.decodingTable[p] = firstPassTable[p]
              /\ \A l \in Letters : \E p \in DOMAIN gen.decodingTable :
                    gen.decodingTable[p] = l

\* a call for the smallest valid grid has returned, and the second pass has
\* given a letter other products than the 27 of the first pass
CoverageReached ==
    /\ genPc = "returned"
    /\ genGridSize = MinGridSize
    /\ Cardinality(DOMAIN firstPassTable) = 27
    /\ Cardinality(DOMAIN gen.decodingTable) > 27

\* C3 (totality): for every gridSize in 8 .. 20 and every seed, the keys of the
\* table returned are exactly the products i * j, 1 <= i, j <= gridSize, and
\* each key maps to one of A .. Z and the space.
Totality ==
    (genPc = "returned" /\ genGridSize \in ValidGridSizes) =>
        /\ DOMAIN gen.decodingTable = Products(genGridSize)
        /\ \A p \in DOMAIN gen.decodingTable :
              gen.decodingTable[p] \in (CodeA..CodeZ) \cup {Space}

\* a call for the largest valid grid has returned a table that holds the
\* product gridSize * gridSize
TotalityReached ==
    /\ genPc = "returned"
    /\ genGridSize = MaxGridSize
    /\ MaxGridSize * MaxGridSize \in DOMAIN gen.decodingTable

\* C8 as the specification states it: for gridSize 0 .. 7 the call returns a
\* table, it raises no error.
SmallGridReturns == genGridSize < MinGridSize => genPc # "threw"

-----------------------------------------------------------------------------
(* Properties of encodeMessage and decodeMessage, under SpecCodec          *)

\* the number a string of decimal digits denotes
RECURSIVE DecimalValue(_)
DecimalValue(str) ==
    IF str = <<>> THEN 0
    ELSE 10 * DecimalValue(SubSeq(str, 1, Len(str) - 1)) + (str[Len(str)] - CodeZero)

\* str is the decimal representation of n
IsDecimalOf(str, n) ==
    /\ str # <<>>
    /\ \A k \in 1..Len(str) : str[k] \in CodeZero..CodeNine
    /\ Len(str) > 1 => str[1] # CodeZero
    /\ DecimalValue(str) = n

\* the generator's state after k calls
RECURSIVE SeedAfter(_, _)
SeedAfter(seed, k) == IF k = 0 THEN seed ELSE NextSeed(SeedAfter(seed, k - 1))

\* every product of the table that holds one of letters is decoded to it
HomographsDecode(letters, table) ==
    \A p \in DOMAIN table :
        (\E k \in 1..Len(letters) : letters[k] = table[p]) =>
            decodeMessage(NumberToString(p), table) = <<table[p]>>

\* C1 (round trip): on the table generated for a gridSize in 8 .. 20, encode
\* returns, and decoding what it returned gives the sanitized message; so does
\* decoding any other product that holds a letter of the message. (The formula
\* states it of every message, of letters and spaces or not.)
RoundTrip ==
    genGridSize \in ValidGridSizes =>
        /\ codecPc = "encoded" => ~encoded.threw
        /\ codecPc = "roundtrip" =>
              /\ decoded = SanitizeEncode(codecInput)
              /\ HomographsDecode(SanitizeEncode(codecInput), codecTable)

\* "E E" was encoded with two different products for its two E, and decoded
RoundTripReached ==
    /\ codecPc = "roundtrip"
    /\ genGridSize \in ValidGridSizes
    /\ codecInput = <<69, Space, 69>>
    /\ encoded.products[1] # encoded.products[3]
    /\ decoded = codecInput

\* the offset in the joined string of the k-th of tokens
RECURSIVE Offset(_, _)
Offset(tokens, k) ==
    IF k = 1 THEN 0 ELSE Offset(tokens, k - 1) + Len(tokens[k - 1].str) + 1

\* C4 as the specification states it: the token of each character is
\* "{i}x{j}", (i, j) being the first factor pair of the chosen product.
EncodeEmitsFactors ==
    (codecPc = "encoded" /\ ~encoded.threw /\ genGridSize \in ValidGridSizes) =>
        \A k \in 1..Len(encoded.products) :
            encoded.tokens[k] =
                Str(NumberToString(
                        generateReverseTable(genGridSize)[encoded.products[k]][1].i)
                    \o <<120>>
                    \o NumberToString(
                        generateReverseTable(genGridSize)[encoded.products[k]][1].j))

\* C4 (amended): when encode returns, it has emitted, for each character of the
\* sanitized message, one token: the decimal representation of a product the
\* table maps to that character; the tokens are joined by single spaces.
EncodeEmitsProducts ==
    (codecPc = "encoded" /\ ~encoded.threw) =>
        /\ Len(encoded.tokens) = Len(SanitizeEncode(codecInput))
        /\ Len(encoded.products) = Len(SanitizeEncode(codecInput))
        /\ \A k \in 1..Len(encoded.tokens) :
              /\ encoded.products[k] \in DOMAIN codecTable
              /\ codecTable[encoded.products[k]] = SanitizeEncode(codecInput)[k]
              /\ encoded.tokens[k].defined
              /\ IsDecimalOf(encoded.tokens[k].str, encoded.products[k])
              /\ SubSeq(encoded.out, Offset(encoded.tokens, k) + 1,
                        Offset(encoded.tokens, k) + Len(encoded.tokens[k].str))
                    = encoded.tokens[k].str
              /\ k > 1 => encoded.out[Offset(encoded.tokens, k)] = Space
        /\ Len(encoded.out) =
              IF encoded.tokens = <<>> THEN 0
              ELSE Offset(encoded.tokens, Len(encoded.tokens))
                      + Len(encoded.tokens[Len(encoded.tokens)].str)

\* a message of three characters was encoded, one of the tokens having two
\* digits or more
EncodeEmitsProductsReached ==
    /\ codecPc = "encoded"
    /\ ~encoded.threw
    /\ Len(encoded.tokens) = 3
    /\ \E k \in 1..3 : Len(encoded.tokens[k].str) >= 2

\* C5 as the specification states it: encode raises no error, whatever the
\* table.
EncodeNeverThrows == codecPc = "encoded" => ~encoded.threw

\* the digits and the spaces of a string
DigitsAndSpaces(message) ==
    SelectSeq(message, LAMBDA c : c \in CodeZero..CodeNine \/ c = Space)

\* where the runs of digits of f start, and where the run starting at k ends
RunStarts(f) == {k \in 1..Len(f) : f[k] # Space /\ (k = 1 \/ f[k - 1] = Space)}

RunEnd(f, k) ==
    CHOOSE e \in k..Len(f) :
        (\A m \in k..e : f[m] # Space) /\ (e = Len(f) \/ f[e + 1] = Space)

\* what the run of digits starting at k contributes
Contribution(f, k, table) ==
    IF DecimalValue(SubSeq(f, k, RunEnd(f, k))) # 0
       /\ DecimalValue(SubSeq(f, k, RunEnd(f, k))) \in DOMAIN table
    THEN <<table[DecimalValue(SubSeq(f, k, RunEnd(f, k)))]>>
    ELSE <<>>

RECURSIVE Contributions(_, _, _, _)
Contributions(f, starts, n, table) ==
    IF n = 0 THEN <<>>
    ELSE Contributions(f, starts, n - 1, table) \o Contribution(f, starts[n], table)

\* C6 (decode is best effort): for any string and any table decode returns a
\* string. The tokens are the runs of digits that spaces separate once every
\* other character is removed; a token of value zero and a token whose value is
\* no key of the table contribute nothing, every other token contributes
\* table[value], in the order of the input and with no separator.
DecodeBestEffort ==
    codecPc = "decoded" =>
        decoded = Contributions(DigitsAndSpaces(codecInput),
                                Ascending(RunStarts(DigitsAndSpaces(codecInput))),
                                Cardinality(RunStarts(DigitsAndSpaces(codecInput))),
                                codecTable)

\* "0 1" was decoded on a generated table: the zero was dropped
DecodeBestEffortReached ==
    /\ codecPc = "decoded"
    /\ genGridSize \in ValidGridSizes
    /\ codecInput = <<CodeZero, Space, 49>>
    /\ decoded = <<codecTable[1]>>

\* C7 as the specification states it: two raw messages with the same sanitized
\* form are encoded the same.
SeededBySanitized ==
    (codecPc = "encoded" /\ ~encoded.threw) =>
        \A message \in EncodeMessages :
            SanitizeEncode(message) = SanitizeEncode(codecInput) =>
                encodeMessage(message, codecTable).out = encoded.out

\* the product the generator in state seed draws among matching
Drawn(matching, seed) == matching[RandomIndex(seed, Len(matching)) + 1]

\* the products of encoded are those a generator seeded by seed draws for
\* letters
DrawnFrom(seed, letters) ==
    /\ encoded.seed = seed
    /\ \A k \in 1..Len(encoded.products) :
          encoded.products[k] =
              Drawn(MatchingResults(codecTable, letters[k]), SeedAfter(seed, k - 1))
    /\ encoded.random =
          SeedAfter(seed, Len(encoded.products) + (IF encoded.threw THEN 1 ELSE 0))

\* C7 (amended): the generator of a call is seeded by the hash of the message
\* as given, before it is sanitized; the k-th product is the one the k-th call
\* of that generator draws among the products of the k-th character: the
\* products are a function of the message and the table, and of nothing else.
SeededByRaw ==
    codecPc = "encoded" => DrawnFrom(hash(codecInput), SanitizeEncode(codecInput))

\* a message that is not its sanitized form was encoded, and the encoding is not
\* the one of its sanitized form
SeededByRawReached ==
    /\ codecPc = "encoded"
    /\ ~encoded.threw
    /\ Len(encoded.products) >= 2
    /\ SanitizeEncode(codecInput) # codecInput
    /\ SanitizeEncode(SanitizeEncode(codecInput)) = SanitizeEncode(codecInput)
    /\ encodeMessage(SanitizeEncode(codecInput), codecTable).out # encoded.out

-----------------------------------------------------------------------------
(* Properties of the application, under Spec                               *)

\* the gridSize and the seed a text stands for
SettingOfGridSize(text) ==
    IF ~parseInt(text).nan /\ parseInt(text).value \in MinGridSize..MaxGridSize
    THEN parseInt(text).value
    ELSE DefaultGridSize

SettingOfSeed(text) == IF parseInt(text).nan THEN DefaultSeed ELSE parseInt(text).value

\* C9 (the table follows the settings): generateDecodingTable is never called
\* with a gridSize outside 8 .. 20, and once the queued watchers have run the
\* table of the instance is the one generated for the gridSize its text stands
\* for, 12 when the text is no number of 8 .. 20, and for the seed its text
\* stands for, 1 when the text is no number.
TableFollowsSettings ==
    /\ generateCalls \subseteq MinGridSize..MaxGridSize
    /\ (pending = {} /\ replaced = <<>>) =>
          /\ ~Generated(SettingOfGridSize(vm.gridSize), SettingOfSeed(vm.seed)).threw
          /\ vm.decodingTable =
                Generated(SettingOfGridSize(vm.gridSize), SettingOfSeed(vm.seed)).table

\* gridSize holds "21" and seed "-1", both edits processed and saved: the table
\* is the one of gridSize 12 and seed -1
TableFollowsSettingsReached ==
    /\ pending = {} /\ replaced = <<>>
    /\ vm.gridSize = <<50, 49>>
    /\ vm.seed = <<CodeMinus, 49>>
    /\ storage.gridSize = Str(<<50, 49>>)
    /\ storage.seed = Str(<<CodeMinus, 49>>)
    /\ vm.decodingTable = Generated(DefaultGridSize, -1).table

\* the step is an error reaching the handler
ErrorStep == resets' + rethrown' = resets + rethrown + 1

\* C10 (recovery is one-shot): the first error, when localStorage is there,
\* clears the storage and launches again; every other error is rethrown, the
\* storage, the instance and the number of launches being left as they were.
\* launch() runs twice at most.
OneShotRecovery ==
    /\ [](resets <= 1 /\ launches = 1 + resets /\ launches <= 2)
    /\ [][ErrorStep =>
            IF localStorageOk /\ resets + rethrown = 0
            THEN /\ resets' = 1 /\ launches' = 2 /\ rethrown' = rethrown
                 /\ storage' = NoItems
                 /\ vm' = Launched(NoItems, localStorageOk)
            ELSE /\ rethrown' = rethrown + 1
                 /\ UNCHANGED <<storage, vm, pending, replaced, launches, resets>>]_vars
    /\ [][~ErrorStep => UNCHANGED <<launches, resets, rethrown>>]_vars

\* the first error has reset the application and the second was rethrown
OneShotRecoveryReached ==
    /\ resets = 1 /\ rethrown = 1 /\ launches = 2
    /\ resetAtError = 1

=============================================================================
